---- MODULE Spec2Model ----
(***************************************************************************)
(* William-Morris-Local-LLM.py: the event-driven device controller.        *)
(* Threads: the coordinator (DeviceController.process_events, main         *)
(* thread), the model worker (LocalLLM.run), the key listener thread that  *)
(* runs LocalLLM.on_press, the encoder callback thread and the dial's      *)
(* polling thread (RotaryEncoderClass.run), both of which run              *)
(* rotation_detected.  All of them share one queue.Queue of Event objects. *)
(***************************************************************************)
EXTENDS Integers, Sequences, FiniteSets, TLC

\* ---- bounds of the model (inputs of the environment) ----
MaxEnters == 2       \* Enter presses over a run
MaxKeys   == 2       \* other accepted key presses over a run
MaxInput  == 1       \* longest line buffer typed
MaxCalls  == 2       \* calls of the model collaborator over a run
MaxQueue  == 2       \* events held at once by the unbounded queue.Queue
MaxIdleTurns == 1    \* full turns the encoder accumulates while nobody resets it
MaxReverse == 1      \* lowest rotation_count reached by turning backwards is -MaxReverse
MaxUnitsTyping == 0  \* charge reached by a user who is also typing
MaxCharges == 1      \* submissions made by the user who only charges (SpecDial)
MaxRaceTurns == 4    \* full turns made on the dial whose threads are followed step by step

\* ---- program constants ----
\* the two threads that run rotation_detected: gpiozero's, through
\* when_rotated (line 361), and RotaryEncoderClass.run (line 368)
DialThreads == {"callback", "polling"}
CPR == 2048          \* RotaryEncoderClass.CPR
RotationsPerUnit == 3
MaxUnits == 6
num_bars == 6        \* EpaperDisplay.num_bars
KeyThreshold == 3
InitialKeyCount == 2

VARIABLES
  \* the shared queue.Queue (DeviceController.event_queue)
  queue,
  \* DeviceController
  c_pc, c_event, loading_bar_full, ctl_is_running,
  \* EpaperDisplay; d_pc is the position of its thread (EpaperDisplay.run)
  disp_is_running, disp_loading_progress, displayed, d_pc,
  \* RotaryEncoderClass and the gpiozero encoder it owns; r_pc is the
  \* position of the polling thread, whose loop is 'while True'
  rot_is_running, enc_steps, rotation_count, loading_progress, rotations_met,
  r_pc,
  \* LocalLLM
  w_pc, w_ret, llm_is_running, input_ready, llm_output_ready, user_input,
  messages, response, input_counter, key_count,
  \* the pynput listener thread
  listener_on, k_pc,
  \* history of the run, read only by the properties: strokes counts the
  \* accepted keystrokes since the start or the latest Enter, callCyc[n] is
  \* the number of Enters that preceded model call n, since_adv the
  \* rotations counted since the last advance of the charge
  enters, typed, calls, barPushed, respPushed, sent, chatDone, w_fault,
  lastResp, enterText, drained, strokes, callCyc, since_adv,
  \* history of the dial: turned_active tells whether the wheel has been
  \* turned a full turn on the active dial since the dial was last activated
  turned_active,
  \* rotation_detected followed statement by statement: rd_pc[t] is the
  \* position of thread t inside it, rd_tmp[t] the value t is about to store
  \* in rotation_count; race_turns and bar_fulls count, since the dial was
  \* last activated, the full turns made and the BAR_FULL events pushed
  rd_pc, rd_tmp, race_turns, bar_fulls

coordVars == <<c_pc, c_event, loading_bar_full, ctl_is_running>>
dispVars  == <<disp_is_running, disp_loading_progress, displayed, d_pc>>
dialVars  == <<rot_is_running, enc_steps, rotation_count, loading_progress, rotations_met,
               r_pc>>
llmVars   == <<w_pc, w_ret, llm_is_running, input_ready, llm_output_ready, user_input,
               messages, response, input_counter, key_count>>
kbdVars   == <<listener_on, k_pc>>
histVars  == <<enters, typed, calls, barPushed, respPushed, sent, chatDone, w_fault,
               lastResp, enterText, drained, strokes, callCyc, since_adv>>
raceVars  == <<rd_pc, rd_tmp, race_turns, bar_fulls>>
dialHist  == <<turned_active, raceVars>>
vars == <<queue, coordVars, dispVars, dialVars, llmVars, kbdVars, histVars, dialHist>>

\* ---- values ----
\* A Python value that travels as event data or sits in LocalLLM.response:
\* nothing, an int, a str, or an ollama ChatResponse (n tells the calls apart).
NoneVal     == [kind |-> "none", text |-> "", n |-> 0]
IntVal(i)   == [kind |-> "int", text |-> "", n |-> i]
StrVal(s)   == [kind |-> "str", text |-> s, n |-> 0]
ChatResp(i) == [kind |-> "resp", text |-> "reply", n |-> i]
Unset       == [kind |-> "unset", text |-> "", n |-> 0]

\* f"Error: {str(e)}" for the three exceptions the worker can meet
ErrChat   == StrVal("Error: chat failed")
ErrNoAttr == StrVal("Error: 'str' object has no attribute 'message'")
ErrLog    == StrVal("Error: log write failed")

\* a text: the line typed, the content of reply n, or a str shown as it is
UserContent(s) == [kind |-> "input", n |-> 0, chars |-> s]
StrText(v)     == [kind |-> v.text, n |-> 0, chars |-> <<>>]

\* value.message.content: defined on a ChatResponse only
HasContent(v) == v.kind = "resp"
ContentOf(v)  == [kind |-> "reply", n |-> v.n, chars |-> <<>>]

\* a conversation entry {'role': r, 'content': c}
Msg(r, c) == [role |-> r, content |-> c]
system_prompt == Msg("system", [kind |-> "prompt", n |-> 0, chars |-> <<>>])

\* Event(event_type, data); cyc records how many finalizes preceded the push
Event(t, d) == [type |-> t, data |-> d, cyc |-> enters]

\* a put that jumps the queue instead of joining its end
QueuePutFront(q, e) == <<e>> \o q

\* queue.Queue.put
QueuePut(q, e) == Append(q, e)

\* a clear that leaves the queue as it was
QueueClearNothing(q) == q

\* queue.clear() under the queue mutex
QueueClear(q) == <<>>

\* the interpreter is still running: the main thread has neither died of an
\* exception nor returned (every other thread is a daemon thread)
ProcessAlive == c_pc \notin {"crashed", "gone"}

Init ==
  /\ queue = <<>>
  /\ c_pc = "poll" /\ c_event = [type |-> "NONE", data |-> NoneVal, cyc |-> 0]
  /\ loading_bar_full = FALSE /\ ctl_is_running = TRUE
  /\ disp_is_running = TRUE /\ disp_loading_progress = -1 /\ displayed = <<>>
  /\ d_pc = "run"
  /\ rot_is_running = FALSE /\ enc_steps = 0 /\ rotation_count = 0
  /\ loading_progress = -1 /\ rotations_met = FALSE /\ r_pc = "run"
  /\ w_pc = "loop" /\ w_ret = Unset /\ llm_is_running = TRUE
  /\ input_ready = FALSE /\ llm_output_ready = FALSE /\ user_input = <<>>
  /\ messages = <<system_prompt>> /\ response = Unset
  /\ input_counter = 0 /\ key_count = InitialKeyCount
  /\ listener_on = FALSE /\ k_pc = "idle"
  /\ enters = 0 /\ typed = 0 /\ calls = 0 /\ barPushed = {} /\ respPushed = {}
  /\ sent = 0
  /\ chatDone = {} /\ w_fault = "none" /\ lastResp = NoneVal
  /\ enterText = <<>> /\ drained = <<>>
  /\ strokes = 0 /\ callCyc = <<>> /\ since_adv = 0
  /\ turned_active = FALSE
  /\ rd_pc = [t \in DialThreads |-> "idle"] /\ rd_tmp = [t \in DialThreads |-> 0]
  /\ race_turns = 0 /\ bar_fulls = 0

\* ---------------------------------------------------------------------
\* LocalLLM.on_press, run by the listener thread while the listener is on
\* ---------------------------------------------------------------------
AcceptedKeys == {"a", "space", "backspace"}

\* the line buffer after one accepted key
EditBuffer(buf, k) ==
  IF k = "backspace" THEN SubSeq(buf, 1, Len(buf) - 1)
  ELSE IF k = "space" THEN Append(buf, " ")
  ELSE Append(buf, k)

\* a character, space or backspace: lines 489-500, then the check of 513-517
OnPressKey(k) ==
  /\ ProcessAlive /\ listener_on /\ k_pc = "idle"
  /\ typed < MaxKeys
  /\ Len(EditBuffer(user_input, k)) <= MaxInput
  /\ user_input' = EditBuffer(user_input, k)
  /\ typed' = typed + 1
  /\ strokes' = strokes + 1
  /\ IF key_count + 1 >= KeyThreshold
       THEN /\ Len(queue) < MaxQueue
            /\ queue' = QueuePut(queue, Event("KEYBOARDINPUT", NoneVal))
            /\ input_counter' = input_counter + 1
            /\ key_count' = 0
       ELSE /\ key_count' = key_count + 1
            /\ UNCHANGED <<queue, input_counter>>
  /\ UNCHANGED <<coordVars, dispVars, dialVars, kbdVars>>
  /\ UNCHANGED <<w_pc, w_ret, llm_is_running, input_ready, llm_output_ready,
                 messages, response>>
  /\ UNCHANGED <<enters, calls, barPushed, respPushed, sent, chatDone, w_fault,
                 lastResp, enterText, drained>>
  /\ UNCHANGED <<callCyc, since_adv>>
  /\ UNCHANGED dialHist

\* Enter, lines 504-505: the queue is emptied under its mutex
OnPressEnterClear ==
  /\ ProcessAlive /\ listener_on /\ k_pc = "idle"
  /\ enters < MaxEnters
  /\ queue' = QueueClear(queue)
  /\ k_pc' = "cleared"
  /\ enters' = enters + 1
  /\ enterText' = user_input
  /\ drained' = queue
  /\ UNCHANGED <<coordVars, dispVars, dialVars, llmVars, listener_on>>
  /\ UNCHANGED <<typed, calls, barPushed, respPushed, sent, chatDone, w_fault, lastResp>>
  /\ UNCHANGED <<strokes, callCyc, since_adv>>
  /\ UNCHANGED dialHist

\* Enter, lines 509-510: key_count = 0, put(Event(INPUTSENT))
OnPressEnterPut ==
  /\ ProcessAlive /\ k_pc = "cleared"
  /\ Len(queue) < MaxQueue
  /\ key_count' = 0
  /\ strokes' = 0
  /\ queue' = QueuePut(queue, Event("INPUTSENT", NoneVal))
  /\ sent' = sent + 1
  /\ k_pc' = "sent"
  /\ UNCHANGED <<coordVars, dispVars, dialVars, listener_on>>
  /\ UNCHANGED <<w_pc, w_ret, llm_is_running, input_ready, llm_output_ready,
                 user_input, messages, response, input_counter>>
  /\ UNCHANGED <<enters, typed, calls, barPushed, respPushed, chatDone, w_fault,
                 lastResp, enterText, drained>>
  /\ UNCHANGED <<callCyc, since_adv>>
  /\ UNCHANGED dialHist

\* Enter, line 511: input_ready = True (key_count is 0, so 513 does nothing)
OnPressEnterReady ==
  /\ ProcessAlive /\ k_pc = "sent"
  /\ input_ready' = TRUE
  /\ k_pc' = "idle"
  /\ drained' = <<>>
  /\ UNCHANGED <<queue, coordVars, dispVars, dialVars, listener_on>>
  /\ UNCHANGED <<enters, typed, calls, barPushed, respPushed, sent, chatDone, w_fault,
                 lastResp, enterText>>
  /\ UNCHANGED <<w_pc, w_ret, llm_is_running, llm_output_ready, user_input,
                 messages, response, input_counter, key_count>>
  /\ UNCHANGED <<strokes, callCyc, since_adv>>
  /\ UNCHANGED dialHist

\* ---------------------------------------------------------------------
\* LocalLLM.run, the model worker thread
\* ---------------------------------------------------------------------
\* lines 449-454: loop test, input_counter = 0, the listener is started
WorkerLoop ==
  /\ ProcessAlive /\ w_pc = "loop"
  /\ IF llm_is_running
       THEN /\ input_counter' = 0
            /\ listener_on' = TRUE
            /\ w_pc' = "wait"
       ELSE /\ w_pc' = "done"
            /\ UNCHANGED <<input_counter, listener_on>>
  /\ UNCHANGED <<queue, coordVars, dispVars, dialVars, k_pc, histVars>>
  /\ UNCHANGED <<w_ret, llm_is_running, input_ready, llm_output_ready, user_input,
                 messages, response, key_count>>
  /\ UNCHANGED dialHist

\* lines 456-459: the poll of input_ready succeeds, the listener is stopped
WorkerInputSeen ==
  /\ ProcessAlive /\ w_pc = "wait"
  /\ input_ready
  /\ listener_on' = FALSE
  /\ w_pc' = "append"
  /\ UNCHANGED <<queue, coordVars, dispVars, dialVars, k_pc, histVars>>
  /\ UNCHANGED <<w_ret, llm_is_running, input_ready, llm_output_ready, user_input,
                 messages, response, input_counter, key_count>>
  /\ UNCHANGED dialHist

\* line 463: messages.append({'role': 'user', 'content': self.user_input})
WorkerAppendUser ==
  /\ ProcessAlive /\ w_pc = "append"
  /\ calls < MaxCalls
  /\ messages' = Append(messages, Msg("user", UserContent(user_input)))
  /\ w_fault' = "none"
  /\ w_pc' = "call"
  /\ UNCHANGED <<queue, coordVars, dispVars, dialVars, kbdVars>>
  /\ UNCHANGED <<w_ret, llm_is_running, input_ready, llm_output_ready, user_input,
                 response, input_counter, key_count>>
  /\ UNCHANGED <<enters, typed, calls, barPushed, respPushed, sent, chatDone,
                 lastResp, enterText, drained>>
  /\ UNCHANGED <<strokes, callCyc, since_adv>>
  /\ UNCHANGED dialHist

\* get_llm_response, lines 523-535: chat() returns or raises
GetLLMResponse(ok) ==
  /\ ProcessAlive /\ w_pc = "call"
  /\ calls' = calls + 1
  /\ callCyc' = Append(callCyc, enters)
  /\ chatDone' = chatDone \cup {enters}
  /\ IF ok
       THEN /\ llm_output_ready' = TRUE
            /\ w_ret' = ChatResp(calls + 1)
            /\ UNCHANGED w_fault
       ELSE /\ w_ret' = ErrChat
            /\ w_fault' = "chat"
            /\ UNCHANGED llm_output_ready
  /\ w_pc' = "assign"
  /\ UNCHANGED <<queue, coordVars, dispVars, dialVars, kbdVars>>
  /\ UNCHANGED <<llm_is_running, input_ready, user_input, messages, response,
                 input_counter, key_count>>
  /\ UNCHANGED <<enters, typed, barPushed, respPushed, sent, lastResp, enterText,
                 drained>>
  /\ UNCHANGED <<strokes, since_adv>>
  /\ UNCHANGED dialHist

\* line 465: self.response = <the value returned>
WorkerAssign ==
  /\ ProcessAlive /\ w_pc = "assign"
  /\ response' = w_ret
  /\ w_pc' = "format"
  /\ UNCHANGED <<queue, coordVars, dispVars, dialVars, kbdVars, histVars>>
  /\ UNCHANGED <<w_ret, llm_is_running, input_ready, llm_output_ready, user_input,
                 messages, input_counter, key_count>>
  /\ UNCHANGED dialHist

\* the handler of lines 483-485: put(Event(LLM_RESPONSE, f"Error: {e}")),
\* after which the while loop goes round again
WorkerExcept(err) ==
  /\ Len(queue) < MaxQueue
  /\ queue' = QueuePut(queue, Event("LLM_RESPONSE", err))
  /\ respPushed' = respPushed \cup {enters}
  /\ lastResp' = err
  /\ w_pc' = "loop"

\* lines 466-467: self.response.message.content is evaluated for the print
WorkerFormat ==
  /\ ProcessAlive /\ w_pc = "format"
  /\ IF HasContent(response)
       THEN /\ w_pc' = "log"
            /\ UNCHANGED <<queue, respPushed, lastResp>>
       ELSE WorkerExcept(ErrNoAttr)
  /\ UNCHANGED <<coordVars, dispVars, dialVars, kbdVars>>
  /\ UNCHANGED <<w_ret, llm_is_running, input_ready, llm_output_ready, user_input,
                 messages, response, input_counter, key_count>>
  /\ UNCHANGED <<enters, typed, calls, barPushed, sent, chatDone, w_fault, enterText,
                 drained>>
  /\ UNCHANGED <<strokes, callCyc, since_adv>>
  /\ UNCHANGED dialHist

\* lines 468-470: the chat log is opened and written, or open/write raises
WorkerLog(ok) ==
  /\ ProcessAlive /\ w_pc = "log"
  /\ IF ok
       THEN /\ w_pc' = "history"
            /\ UNCHANGED <<queue, respPushed, lastResp, w_fault>>
       ELSE /\ WorkerExcept(ErrLog)
            /\ w_fault' = "log"
  /\ UNCHANGED <<coordVars, dispVars, dialVars, kbdVars>>
  /\ UNCHANGED <<w_ret, llm_is_running, input_ready, llm_output_ready, user_input,
                 messages, response, input_counter, key_count>>
  /\ UNCHANGED <<enters, typed, calls, barPushed, sent, chatDone, enterText, drained>>
  /\ UNCHANGED <<strokes, callCyc, since_adv>>
  /\ UNCHANGED dialHist

\* lines 471-472: the assistant entry is appended, llm_output_ready = True
WorkerHistory ==
  /\ ProcessAlive /\ w_pc = "history"
  /\ messages' = Append(messages, Msg("assistant", ContentOf(response)))
  /\ llm_output_ready' = TRUE
  /\ w_pc' = "put"
  /\ UNCHANGED <<queue, coordVars, dispVars, dialVars, kbdVars, histVars>>
  /\ UNCHANGED <<w_ret, llm_is_running, input_ready, user_input, response,
                 input_counter, key_count>>
  /\ UNCHANGED dialHist

\* line 473: put(Event(LLM_RESPONSE, self.response))
WorkerPut ==
  /\ ProcessAlive /\ w_pc = "put"
  /\ Len(queue) < MaxQueue
  /\ queue' = QueuePut(queue, Event("LLM_RESPONSE", response))
  /\ respPushed' = respPushed \cup {enters}
  /\ lastResp' = response
  /\ w_pc' = "reset"
  /\ UNCHANGED <<coordVars, dispVars, dialVars, kbdVars>>
  /\ UNCHANGED <<w_ret, llm_is_running, input_ready, llm_output_ready, user_input,
                 messages, response, input_counter, key_count>>
  /\ UNCHANGED <<enters, typed, calls, barPushed, sent, chatDone, w_fault, enterText,
                 drained>>
  /\ UNCHANGED <<strokes, callCyc, since_adv>>
  /\ UNCHANGED dialHist

\* lines 475-479: user_input = "", input_ready = False (prompt_queue is empty)
WorkerReset ==
  /\ ProcessAlive /\ w_pc = "reset"
  /\ user_input' = <<>>
  /\ input_ready' = FALSE
  /\ w_pc' = "loop"
  /\ UNCHANGED <<queue, coordVars, dispVars, dialVars, kbdVars, histVars>>
  /\ UNCHANGED <<w_ret, llm_is_running, llm_output_ready, messages, response,
                 input_counter, key_count>>
  /\ UNCHANGED dialHist

\* ---------------------------------------------------------------------
\* RotaryEncoderClass
\* ---------------------------------------------------------------------
Abs(x) == IF x < 0 THEN -x ELSE x
Min(a, b) == IF a < b THEN a ELSE b

\* what the hardware adds to encoder.steps per turn of the wheel: a full turn
\* forwards or backwards
TurnSteps == {CPR, -CPR}

\* a dial whose test of is_running always passes
IsRunningIgnored == TRUE

\* line 373: if self.is_running == True
IsRunningTest == rot_is_running

\* rotation_detected (lines 372-395) run on encoder.steps = s; since_adv
\* counts, up to RotationsPerUnit, the rotations counted since the last
\* advance of loading_progress
RotationDetected(s) ==
  IF IsRunningTest /\ Abs(s) >= CPR
    THEN LET cnt == IF s > 0 THEN rotation_count + 1 ELSE rotation_count - 1
             lp  == loading_progress + 1
             upd == Event("BAR_UPDATE", IntVal(lp))
             full == Event("BAR_FULL", NoneVal)
         IN /\ enc_steps' = 0
            /\ cnt >= -MaxReverse
            /\ IF cnt % RotationsPerUnit = 0
                 THEN /\ rotations_met' = TRUE
                      /\ since_adv' = 0
                      /\ IF lp >= MaxUnits
                           THEN /\ Len(queue) + 2 <= MaxQueue
                                /\ queue' = QueuePut(QueuePut(queue, upd), full)
                                /\ barPushed' = barPushed \cup {enters}
                                /\ rotation_count' = 0
                                /\ loading_progress' = -1
                                /\ rot_is_running' = FALSE
                           ELSE /\ Len(queue) < MaxQueue
                                /\ queue' = QueuePut(queue, upd)
                                /\ UNCHANGED barPushed
                                /\ rotation_count' = cnt
                                /\ loading_progress' = lp
                                /\ UNCHANGED rot_is_running
                 ELSE /\ rotations_met' = FALSE
                      /\ since_adv' = Min(since_adv + 1, RotationsPerUnit)
                      /\ rotation_count' = cnt
                      /\ UNCHANGED <<queue, barPushed, loading_progress, rot_is_running>>
    ELSE /\ enc_steps' = s
         /\ Abs(s) <= MaxIdleTurns * CPR
         /\ UNCHANGED <<queue, barPushed, rotation_count, loading_progress,
                        rot_is_running, rotations_met, since_adv>>

\* the encoder moves by d steps and gpiozero calls when_rotated (line 361)
EncoderTurn(d) ==
  /\ ProcessAlive
  /\ RotationDetected(enc_steps + d)
  /\ UNCHANGED <<coordVars, dispVars, llmVars, kbdVars, r_pc>>
  /\ UNCHANGED <<enters, typed, calls, respPushed, sent, chatDone, w_fault, lastResp,
                 enterText, drained, strokes, callCyc>>
  /\ turned_active' = (turned_active \/ rot_is_running)
  /\ UNCHANGED raceVars

\* RotaryEncoderClass.run (lines 365-369): the polling thread's call
RotaryRun ==
  /\ ProcessAlive
  /\ rot_is_running /\ Abs(enc_steps) >= CPR
  /\ RotationDetected(enc_steps)
  /\ UNCHANGED <<coordVars, dispVars, llmVars, kbdVars, r_pc>>
  /\ UNCHANGED <<enters, typed, calls, respPushed, sent, chatDone, w_fault, lastResp,
                 enterText, drained, strokes, callCyc>>
  /\ UNCHANGED dialHist

\* ---------------------------------------------------------------------
\* DeviceController, the main thread
\* ---------------------------------------------------------------------
\* lines 87-91: event = self.event_queue.get(timeout=0.1)
ProcessEventsGet ==
  /\ c_pc = "poll" /\ ctl_is_running
  /\ queue # <<>>
  /\ c_event' = Head(queue)
  /\ queue' = Tail(queue)
  /\ c_pc' = "handle"
  /\ UNCHANGED <<loading_bar_full, ctl_is_running>>
  /\ UNCHANGED <<dispVars, dialVars, llmVars, kbdVars, histVars>>
  /\ UNCHANGED dialHist

\* shutdown (lines 140-150); the dispatch loop then ends and, the worker
\* threads being daemon threads, so does the process
Shutdown ==
  /\ ctl_is_running' = FALSE
  /\ disp_is_running' = FALSE
  /\ rot_is_running' = FALSE
  /\ llm_is_running' = FALSE
  /\ c_pc' = "exited"

\* check_display_response, line 133: does the gate open
GateOpen(bar_full) == llm_output_ready /\ bar_full

\* handle_event (lines 99-129) up to the test of line 133, the display's
\* drawing included: update_loading_bar (lines 331-342) is given the dial's
\* current loading_progress
HandleEvent ==
  /\ c_pc = "handle"
  /\ CASE c_event.type = "SHUTDOWN" ->
            /\ Shutdown
            /\ UNCHANGED <<loading_bar_full, disp_loading_progress>>
       [] c_event.type = "KEYBOARDINPUT" ->
            /\ c_pc' = "poll"
            /\ UNCHANGED <<loading_bar_full, disp_loading_progress, ctl_is_running,
                           disp_is_running, rot_is_running, llm_is_running>>
       [] c_event.type = "INPUTSENT" ->
            /\ rot_is_running' = TRUE
            /\ c_pc' = "poll"
            /\ UNCHANGED <<loading_bar_full, disp_loading_progress, ctl_is_running,
                           disp_is_running, llm_is_running>>
       [] c_event.type = "BAR_UPDATE" ->
            /\ disp_loading_progress' =
                 IF loading_progress < num_bars THEN disp_loading_progress + 1
                 ELSE disp_loading_progress
            /\ c_pc' = "poll"
            /\ UNCHANGED <<loading_bar_full, ctl_is_running, disp_is_running,
                           rot_is_running, llm_is_running>>
       [] c_event.type = "BAR_FULL" ->
            /\ loading_bar_full' = TRUE
            /\ c_pc' = IF GateOpen(TRUE) THEN "show" ELSE "poll"
            /\ UNCHANGED <<disp_loading_progress, ctl_is_running, disp_is_running,
                           rot_is_running, llm_is_running>>
       [] c_event.type = "LLM_RESPONSE" ->
            /\ c_pc' = IF GateOpen(loading_bar_full) THEN "show" ELSE "poll"
            /\ UNCHANGED <<loading_bar_full, disp_loading_progress, ctl_is_running,
                           disp_is_running, rot_is_running, llm_is_running>>
  /\ turned_active' = IF c_event.type = "INPUTSENT"
                      THEN (rot_is_running /\ turned_active)
                      ELSE turned_active
  /\ race_turns' = IF c_event.type = "INPUTSENT" /\ ~rot_is_running
                   THEN 0 ELSE race_turns
  /\ bar_fulls' = IF c_event.type = "INPUTSENT" /\ ~rot_is_running
                  THEN 0 ELSE bar_fulls
  /\ UNCHANGED <<rd_pc, rd_tmp>>
  /\ UNCHANGED <<queue, c_event, displayed, d_pc, kbdVars, histVars>>
  /\ UNCHANGED <<enc_steps, rotation_count, loading_progress, rotations_met, r_pc>>
  /\ UNCHANGED <<w_pc, w_ret, input_ready, llm_output_ready, user_input, messages,
                 response, input_counter, key_count>>

\* line 135: display_response(self.llm.response.message.content); the
\* attribute lookup raises when response is a str or was never assigned, and
\* nothing in process_events catches it
DisplayResponse ==
  /\ c_pc = "show"
  /\ IF HasContent(response)
       THEN /\ displayed' = Append(displayed, [text |-> ContentOf(response), cyc |-> enters])
            /\ c_pc' = "clear"
       ELSE /\ c_pc' = "crashed"
            /\ UNCHANGED displayed
  /\ UNCHANGED <<queue, c_event, loading_bar_full, ctl_is_running>>
  /\ UNCHANGED <<disp_is_running, disp_loading_progress, d_pc>>
  /\ UNCHANGED <<dialVars, llmVars, kbdVars, histVars>>
  /\ UNCHANGED dialHist

\* lines 137-138: both flags are cleared
ClearFlags ==
  /\ c_pc = "clear"
  /\ llm_output_ready' = FALSE
  /\ loading_bar_full' = FALSE
  /\ c_pc' = "poll"
  /\ UNCHANGED <<queue, c_event, ctl_is_running, dispVars, dialVars, kbdVars, histVars>>
  /\ UNCHANGED <<w_pc, w_ret, llm_is_running, input_ready, user_input, messages,
                 response, input_counter, key_count>>
  /\ UNCHANGED dialHist

\* lines 96-97: the operator's KeyboardInterrupt reaches the main thread
Interrupt ==
  /\ ProcessAlive /\ c_pc # "exited"
  /\ Shutdown
  /\ UNCHANGED <<queue, c_event, loading_bar_full, disp_loading_progress, displayed,
                 d_pc>>
  /\ UNCHANGED <<enc_steps, rotation_count, loading_progress, rotations_met, r_pc>>
  /\ UNCHANGED <<w_pc, w_ret, input_ready, llm_output_ready, user_input, messages,
                 response, input_counter, key_count>>
  /\ UNCHANGED <<kbdVars, histVars>>
  /\ UNCHANGED dialHist

\* lines 86 and 81: the dispatch loop has ended, process_events and start
\* return, the main thread ends and the interpreter exits, which ends the
\* daemon threads wherever they are
MainReturn ==
  /\ c_pc = "exited"
  /\ c_pc' = "gone"
  /\ UNCHANGED <<queue, c_event, loading_bar_full, ctl_is_running>>
  /\ UNCHANGED <<dispVars, dialVars, llmVars, kbdVars, histVars>>
  /\ UNCHANGED dialHist

\* EpaperDisplay.run (lines 310-320): the loop test; while is_running holds
\* an iteration finds update_queue empty (nothing ever puts to it) and
\* changes nothing
DisplayRun ==
  /\ ProcessAlive /\ d_pc = "run"
  /\ ~disp_is_running
  /\ d_pc' = "done"
  /\ UNCHANGED <<disp_is_running, disp_loading_progress, displayed>>
  /\ UNCHANGED <<queue, coordVars, dialVars, llmVars, kbdVars, histVars>>
  /\ UNCHANGED dialHist

\* The program with a user who types, presses Enter and turns the dial (also
\* while it is inactive) until the charge has advanced MaxUnitsTyping units,
\* a model that may fail and a chat log that may fail.  The charge never
\* completes here, so the gate stays shut.
NextInput ==
  \/ \E k \in AcceptedKeys : OnPressKey(k)
  \/ OnPressEnterClear
  \/ OnPressEnterPut
  \/ OnPressEnterReady
  \/ WorkerLoop
  \/ WorkerInputSeen
  \/ WorkerAppendUser
  \/ \E ok \in BOOLEAN : GetLLMResponse(ok)
  \/ WorkerAssign
  \/ WorkerFormat
  \/ \E ok \in BOOLEAN : WorkerLog(ok)
  \/ WorkerHistory
  \/ WorkerPut
  \/ WorkerReset
  \/ \E d \in TurnSteps : loading_progress < MaxUnitsTyping /\ EncoderTurn(d)
  \/ RotaryRun
  \/ ProcessEventsGet
  \/ HandleEvent

SpecInput == Init /\ [][NextInput]_vars

\* The program with a user who presses Enter once per submission (never
\* again before the worker has taken the input) and then charges the dial
\* clockwise to the end, a model that may fail, and the operator's interrupt.
NextGate ==
  \/ (~input_ready /\ OnPressEnterClear)
  \/ OnPressEnterPut
  \/ OnPressEnterReady
  \/ WorkerLoop
  \/ WorkerInputSeen
  \/ WorkerAppendUser
  \/ \E ok \in BOOLEAN : GetLLMResponse(ok)
  \/ WorkerAssign
  \/ WorkerFormat
  \/ WorkerLog(TRUE)
  \/ WorkerHistory
  \/ WorkerPut
  \/ WorkerReset
  \/ (rot_is_running /\ EncoderTurn(CPR))
  \/ ProcessEventsGet
  \/ HandleEvent
  \/ DisplayResponse
  \/ ClearFlags
  \/ Interrupt
  \/ MainReturn

SpecGate == Init /\ [][NextGate]_vars

\* The producers and the consumer of the shared queue: a user who types
\* letters, presses Enter and turns the active dial either way until the
\* charge has advanced MaxUnitsTyping units, a worker whose model call and
\* log write succeed, and the coordinator's dispatch.
NextQueue ==
  \/ OnPressKey("a")
  \/ OnPressEnterClear
  \/ OnPressEnterPut
  \/ OnPressEnterReady
  \/ WorkerLoop
  \/ WorkerInputSeen
  \/ WorkerAppendUser
  \/ GetLLMResponse(TRUE)
  \/ WorkerAssign
  \/ WorkerFormat
  \/ WorkerLog(TRUE)
  \/ WorkerHistory
  \/ WorkerPut
  \/ WorkerReset
  \/ \E d \in TurnSteps :
       rot_is_running /\ loading_progress < MaxUnitsTyping /\ EncoderTurn(d)
  \/ ProcessEventsGet
  \/ HandleEvent

SpecQueue == Init /\ [][NextQueue]_vars

\* The dial over whole submissions: a user who presses Enter once per
\* submission, MaxCharges times, and turns the wheel either way at any
\* time, also while the dial is inactive, a worker whose model call and log
\* write succeed, and the coordinator with its display gate.
NextDial ==
  \/ (~input_ready /\ enters < MaxCharges /\ OnPressEnterClear)
  \/ OnPressEnterPut
  \/ OnPressEnterReady
  \/ WorkerLoop
  \/ WorkerInputSeen
  \/ WorkerAppendUser
  \/ GetLLMResponse(TRUE)
  \/ WorkerAssign
  \/ WorkerFormat
  \/ WorkerLog(TRUE)
  \/ WorkerHistory
  \/ WorkerPut
  \/ WorkerReset
  \/ \E d \in TurnSteps : EncoderTurn(d)
  \/ RotaryRun
  \/ ProcessEventsGet
  \/ HandleEvent
  \/ DisplayResponse
  \/ ClearFlags

SpecDial == Init /\ [][NextDial]_vars

\* Shutdown: a user who submits up to MaxCharges inputs, a worker whose
\* model call and log write succeed, and the operator's interrupt at any
\* moment.  Every thread of the program is scheduled fairly; the user and
\* the operator are not obliged to do anything.
CoordinatorStep == ProcessEventsGet \/ HandleEvent \/ MainReturn
WorkerStep ==
  \/ WorkerLoop \/ WorkerInputSeen \/ WorkerAppendUser \/ GetLLMResponse(TRUE)
  \/ WorkerAssign \/ WorkerFormat \/ WorkerLog(TRUE) \/ WorkerHistory
  \/ WorkerPut \/ WorkerReset
ListenerStep == OnPressEnterPut \/ OnPressEnterReady

NextStop ==
  \/ (~input_ready /\ enters < MaxCharges /\ OnPressEnterClear)
  \/ ListenerStep
  \/ WorkerStep
  \/ CoordinatorStep
  \/ DisplayRun
  \/ Interrupt

SpecStop ==
  /\ Init /\ [][NextStop]_vars
  /\ WF_vars(CoordinatorStep) /\ WF_vars(WorkerStep)
  /\ WF_vars(ListenerStep) /\ WF_vars(DisplayRun)

\* ---------------------------------------------------------------------
\* rotation_detected statement by statement (lines 372-395).  Nothing
\* serialises the two threads that run it: state_lock (line 57) is never
\* acquired, so a thread can be anywhere in the function while the other
\* one runs it too.
\* ---------------------------------------------------------------------
DialAtRest == \A t \in DialThreads : rd_pc[t] = "idle"

\* what a step of the dial leaves alone
RaceFrame ==
  /\ UNCHANGED <<coordVars, dispVars, llmVars, kbdVars, r_pc>>
  /\ UNCHANGED <<enters, typed, calls, respPushed, sent, chatDone, w_fault, lastResp,
                 enterText, drained, strokes, callCyc>>

\* the wheel is turned one full turn clockwise on the active dial, the
\* turn before it having been handled to the end; gpiozero's thread calls
\* when_rotated (line 361)
WheelTurn ==
  /\ ProcessAlive /\ rot_is_running /\ DialAtRest /\ enc_steps = 0
  /\ race_turns < MaxRaceTurns
  /\ enc_steps' = CPR
  /\ rd_pc' = [rd_pc EXCEPT !["callback"] = "test"]
  /\ race_turns' = race_turns + 1
  /\ turned_active' = TRUE
  /\ UNCHANGED <<queue, rot_is_running, rotation_count, loading_progress,
                 rotations_met, rd_tmp, bar_fulls, barPushed, since_adv>>
  /\ RaceFrame

\* lines 367-368: the polling thread finds is_running set and calls
\* rotation_detected
PollCall ==
  /\ ProcessAlive /\ rd_pc["polling"] = "idle" /\ rot_is_running
  /\ rd_pc' = [rd_pc EXCEPT !["polling"] = "test"]
  /\ UNCHANGED <<queue, dialVars, turned_active, rd_tmp, race_turns, bar_fulls,
                 barPushed, since_adv>>
  /\ RaceFrame

\* lines 373-374: the two tests that let a thread into the counting block
RdTest(t) ==
  /\ ProcessAlive /\ rd_pc[t] = "test"
  /\ rd_pc' = [rd_pc EXCEPT ![t] =
                 IF rot_is_running /\ Abs(enc_steps) >= CPR THEN "count" ELSE "idle"]
  /\ UNCHANGED <<queue, dialVars, turned_active, rd_tmp, race_turns, bar_fulls,
                 barPushed, since_adv>>
  /\ RaceFrame

\* lines 375-378, first half of the += or -=: the sign of encoder.steps
\* chooses the branch and rotation_count is read
RdLoad(t) ==
  /\ ProcessAlive /\ rd_pc[t] = "count"
  /\ rd_tmp' = [rd_tmp EXCEPT ![t] =
                  IF enc_steps > 0 THEN rotation_count + 1 ELSE rotation_count - 1]
  /\ rd_pc' = [rd_pc EXCEPT ![t] = "store"]
  /\ UNCHANGED <<queue, dialVars, turned_active, race_turns, bar_fulls,
                 barPushed, since_adv>>
  /\ RaceFrame

\* lines 376/378, second half: the new value is stored
RdStore(t) ==
  /\ ProcessAlive /\ rd_pc[t] = "store"
  /\ rotation_count' = rd_tmp[t]
  /\ rd_tmp' = [rd_tmp EXCEPT ![t] = 0]
  /\ rd_pc' = [rd_pc EXCEPT ![t] = "reset"]
  /\ since_adv' = Min(since_adv + 1, RotationsPerUnit)
  /\ UNCHANGED <<queue, rot_is_running, enc_steps, loading_progress, rotations_met,
                 r_pc, turned_active, race_turns, bar_fulls, barPushed>>
  /\ RaceFrame

\* line 380: encoder.steps = 0
RdReset(t) ==
  /\ ProcessAlive /\ rd_pc[t] = "reset"
  /\ enc_steps' = 0
  /\ rd_pc' = [rd_pc EXCEPT ![t] = "mod"]
  /\ UNCHANGED <<queue, rot_is_running, rotation_count, loading_progress,
                 rotations_met, r_pc, turned_active, rd_tmp, race_turns, bar_fulls,
                 barPushed, since_adv>>
  /\ RaceFrame

\* lines 384-387 and 394-395: every third value of rotation_count advances
\* loading_progress and pushes BAR_UPDATE
RdMod(t) ==
  /\ ProcessAlive /\ rd_pc[t] = "mod"
  /\ IF rotation_count % RotationsPerUnit = 0
       THEN /\ Len(queue) < MaxQueue
            /\ rotations_met' = TRUE
            /\ loading_progress' = loading_progress + 1
            /\ queue' = QueuePut(queue, Event("BAR_UPDATE", IntVal(loading_progress + 1)))
            /\ since_adv' = 0
            /\ rd_pc' = [rd_pc EXCEPT ![t] = "full"]
       ELSE /\ rotations_met' = FALSE
            /\ rd_pc' = [rd_pc EXCEPT ![t] = "idle"]
            /\ UNCHANGED <<queue, loading_progress, since_adv>>
  /\ UNCHANGED <<rot_is_running, enc_steps, rotation_count, r_pc, turned_active,
                 rd_tmp, race_turns, bar_fulls, barPushed>>
  /\ RaceFrame

\* line 388: the test of a full charge
RdFullTest(t) ==
  /\ ProcessAlive /\ rd_pc[t] = "full"
  /\ rd_pc' = [rd_pc EXCEPT ![t] =
                 IF loading_progress >= MaxUnits THEN "fin" ELSE "idle"]
  /\ UNCHANGED <<queue, dialVars, turned_active, rd_tmp, race_turns, bar_fulls,
                 barPushed, since_adv>>
  /\ RaceFrame

\* lines 389-393: BAR_FULL is pushed, the counters are reset and the dial
\* stops itself
RdFin(t) ==
  /\ ProcessAlive /\ rd_pc[t] = "fin"
  /\ Len(queue) < MaxQueue
  /\ queue' = QueuePut(queue, Event("BAR_FULL", NoneVal))
  /\ rotation_count' = 0
  /\ loading_progress' = -1
  /\ rot_is_running' = FALSE
  /\ bar_fulls' = bar_fulls + 1
  /\ barPushed' = barPushed \cup {enters}
  /\ rd_pc' = [rd_pc EXCEPT ![t] = "idle"]
  /\ UNCHANGED <<enc_steps, rotations_met, r_pc, turned_active, rd_tmp, race_turns,
                 since_adv>>
  /\ RaceFrame

\* The dial's two threads: a user who submits up to MaxCharges inputs and
\* then turns the wheel clockwise, one full turn at a time and only on the
\* active dial, each turn after the one before it has been handled; the
\* worker starts the keyboard listener and the coordinator dispatches the
\* events.
NextRace ==
  \/ WorkerLoop
  \/ (~input_ready /\ enters < MaxCharges /\ OnPressEnterClear)
  \/ OnPressEnterPut
  \/ OnPressEnterReady
  \/ ProcessEventsGet
  \/ HandleEvent
  \/ WheelTurn
  \/ PollCall
  \/ \E t \in DialThreads : RdTest(t)
  \/ \E t \in DialThreads : RdLoad(t)
  \/ \E t \in DialThreads : RdStore(t)
  \/ \E t \in DialThreads : RdReset(t)
  \/ \E t \in DialThreads : RdMod(t)
  \/ \E t \in DialThreads : RdFullTest(t)
  \/ \E t \in DialThreads : RdFin(t)

SpecRace == Init /\ [][NextRace]_vars

\* ---------------------------------------------------------------------
\* Properties
\* ---------------------------------------------------------------------
\* the coordinator has dispatched everything that was pushed
Quiescent == queue = <<>> /\ c_pc = "poll"

\* the worker is between two cycles
WorkerIdle == w_pc \in {"loop", "wait"}

\* the step in which display_response is called
ShowFires == Len(displayed') > Len(displayed)

\* C1: the show-response action fires exactly once for each cycle in which
\* both a BAR_FULL and an LLM_RESPONSE were produced (counted when the
\* worker is between cycles and the coordinator has dispatched every
\* event), and right after the gate's reset both readiness flags are false.
C1_ShowOncePerPair ==
  /\ []((Quiescent /\ WorkerIdle)
         => Len(displayed) = Cardinality(barPushed \cap respPushed))
  /\ [][(c_pc = "clear" /\ c_pc' = "poll")
          => (~llm_output_ready' /\ ~loading_bar_full')]_vars

\* C2: display_response fires only when, for the submission in progress,
\* the dial has reached charge-complete and the model call has finished.
C2_ShowOnlyForCurrent ==
  [][ShowFires => (enters \in barPushed /\ enters \in chatDone)]_vars

\* every user entry of the conversation is followed by an assistant entry
AllUsersAnswered(msgs) ==
  \A i \in DOMAIN msgs :
    msgs[i].role = "user" => (i < Len(msgs) /\ msgs[i + 1].role = "assistant")

\* C3: once a cycle in which chat raised is over, an LLM_RESPONSE with an
\* error string has been pushed and every user message of the conversation
\* is followed by an assistant message.
C3_ErrorCycleAnswered ==
  w_pc = "loop" =>
    /\ AllUsersAnswered(messages)
    /\ (w_fault = "chat" => lastResp.kind = "str")

\* C4: after every worker cycle the line buffer is empty and input_ready is
\* false, and there is never more than one model call per finalized input.
C4_ResetAfterCycle ==
  /\ (w_pc = "loop" => (user_input = <<>> /\ ~input_ready))
  /\ calls <= enters

\* C5: in a cycle whose model call failed and whose charge completed, once
\* the coordinator has dispatched every event it has issued show-response
\* with the error payload of that cycle's LLM_RESPONSE.
C5_ErrorReplyShown ==
  ( /\ Quiescent
    /\ w_pc \in {"loop", "wait", "append"}
    /\ w_fault = "chat" /\ lastResp.kind = "str"
    /\ enters \in barPushed /\ enters \in respPushed )
  => \E i \in DOMAIN displayed :
       displayed[i] = [text |-> StrText(lastResp), cyc |-> enters]

\* C6: handling BAR_FULL or LLM_RESPONSE never raises out of the dispatch
\* loop, whatever the worker has stored in its response field (a response
\* object or, after a failed model call, an error string).
C6_CoordinatorSurvives ==
  response.kind \in {"resp", "str"} => c_pc # "crashed"

\* C7: when the log write fails after a successful model call, the cycle
\* still appends the assistant entry, pushes an LLM_RESPONSE that carries
\* the model's result and resets the line buffer and input_ready.
C7_LogFailureNonFatal ==
  (w_pc = "loop" /\ w_fault = "log") =>
    /\ messages[Len(messages)].role = "assistant"
    /\ lastResp.kind = "resp"
    /\ user_input = <<>> /\ ~input_ready

\* the INPUTSENT event of the latest Enter
EnterEvent == [type |-> "INPUTSENT", data |-> NoneVal, cyc |-> enters]

\* C8 as stated: after an Enter's drain and push, the next event the
\* coordinator pops is that Enter's INPUTSENT, i.e. while that event is
\* queued nothing is ahead of it.
C8_EnterEventIsNext ==
  \A i \in DOMAIN queue : queue[i] = EnterEvent => i = 1

\* C8 as amended: no event queued before an Enter's drain survives it; the
\* Enter's push appends INPUTSENT behind whatever other threads pushed since
\* the drain, and leaves exactly that event when nothing was pushed between.
C8_DrainThenPush ==
  /\ [](\A i \in DOMAIN queue : queue[i].cyc = enters)
  /\ [][(k_pc = "cleared" /\ k_pc' = "sent")
          => /\ queue'[Len(queue')] = EnterEvent'
             /\ SubSeq(queue', 1, Len(queue') - 1) = queue
             /\ (queue = <<>> => queue' = <<EnterEvent'>>)]_vars

\* an Enter has drained a non-empty queue, the dial has pushed since, and
\* INPUTSENT sits behind the dial's event
C8_Witness ==
  /\ k_pc = "sent" /\ drained # <<>>
  /\ Len(queue) = 2
  /\ queue[1].type = "BAR_UPDATE" /\ queue[2] = EnterEvent

\* C9: a KEYBOARDINPUT event queued before an Enter is discarded by it and
\* is never got by the coordinator afterwards, and each Enter pushes exactly
\* one INPUTSENT.
C9_StaleKeyEventsDropped ==
  /\ [](\A i \in DOMAIN queue :
          queue[i].type = "KEYBOARDINPUT" => queue[i].cyc = enters)
  /\ [][(c_pc = "poll" /\ c_pc' = "handle" /\ c_event'.type = "KEYBOARDINPUT")
          => c_event'.cyc = enters']_vars
  /\ [](sent = IF k_pc = "cleared" THEN enters - 1 ELSE enters)

\* an Enter has discarded a queued KEYBOARDINPUT and pushed its INPUTSENT
C9_Witness ==
  /\ k_pc = "sent" /\ sent = enters
  /\ \E i \in DOMAIN drained : drained[i].type = "KEYBOARDINPUT"
  /\ \E i \in DOMAIN queue : queue[i] = EnterEvent

\* C10: the user message appended for a submission is the line buffer as
\* it stood when Enter was pressed.
C10_AppendedIsEnterText ==
  [][(w_pc = "append" /\ w_pc' = "call")
       => messages'[Len(messages')] = Msg("user", UserContent(enterText))]_vars

C12_EighteenTurnsComplete ==
  /\ (rot_is_running /\ rotation_count = RotationsPerUnit) => loading_progress = 0
  /\ rotation_count < MaxUnits * RotationsPerUnit
  /\ \A i \in DOMAIN queue :
       queue[i].type = "BAR_UPDATE" => queue[i].data.n < MaxUnits

\* C13: an accepted keystroke pushes a KEYBOARDINPUT event exactly when it
\* is the 3rd, 6th, 9th, ... keystroke counted from the start of the process
\* or from the latest Enter.
C13_EveryThirdKeystroke ==
  [][typed' = typed + 1 =>
       ((Len(queue') > Len(queue)) <=> (strokes' % KeyThreshold = 0))]_vars

\* the four loops have been left: the dispatch loop, EpaperDisplay.run,
\* RotaryEncoderClass.run and LocalLLM.run
AllLoopsEnded ==
  /\ c_pc \in {"exited", "gone"}
  /\ d_pc = "done" /\ r_pc = "done" /\ w_pc = "done"

\* C14: once shutdown() has run, the dispatch loop, the display loop, the
\* dial loop and the worker loop are all eventually left, with no further
\* key press or dial turn.
C14_ShutdownTerminates == (~ctl_is_running) ~> AllLoopsEnded

\* C15: the two readiness flags (llm_output_ready, loading_bar_full) change
\* only in steps of the coordinator thread, and the worker's output-ready
\* flag and line buffer change only in steps of the worker thread (every
\* step of a thread moves that thread's position).
C15_SingleWriter ==
  [][ /\ (llm_output_ready' # llm_output_ready \/ loading_bar_full' # loading_bar_full)
           => c_pc' # c_pc
      /\ (llm_output_ready' # llm_output_ready \/ user_input' # user_input)
           => w_pc' # w_pc ]_vars

\* C16: a render (a response shown, a loading-bar segment advanced) is never
\* carried out by a step of the coordinator thread: the coordinator only
\* hands the request over, so its own position is not tied up by the render.
C16_RenderOffCoordinator ==
  [][(Len(displayed') > Len(displayed) \/ disp_loading_progress' # disp_loading_progress)
       => c_pc' = c_pc]_vars

\* C17: whenever display_response is called, the text shown is the content
\* of the reply of the latest model call, and that call was made for the
\* most recently finalized input (callCyc[n] is the number of Enters that
\* preceded call n).
C17_ShowsCurrentReply ==
  [][ShowFires =>
       LET shown == displayed'[Len(displayed')].text
       IN /\ shown.n = calls
          /\ shown.n \in DOMAIN callCyc
          /\ callCyc[shown.n] = enters]_vars

\* C18: between the gate's test and its reset (the coordinator is showing
\* the response or about to clear the flags) the worker never sets
\* llm_output_ready for a new model call, so the reset cannot wipe out the
\* readiness of a later cycle.
C18_NoReadyLostInGate ==
  [][(c_pc = "show" \/ c_pc = "clear")
       => ~(w_pc = "call" /\ w_pc' = "assign" /\ llm_output_ready')]_vars

\* line 119: the unit update_loading_bar is asked to render is the dial's
\* loading_progress at the time of the dispatch
RenderedUnit == loading_progress

\* C19: when the coordinator dispatches a BAR_UPDATE, the unit it renders is
\* the unit the event carried when it was pushed.
C19_RendersEventUnit ==
  [][(c_pc = "handle" /\ c_event.type = "BAR_UPDATE" /\ c_pc' = "poll")
       => RenderedUnit = c_event.data.n]_vars

\* C20: loading_progress advances only in a step that counts at least the
\* third full rotation since the dial was activated or since the previous
\* advance, whichever way the wheel was turned.
C20_AdvanceEveryThird ==
  [][(rotation_count' # rotation_count /\ rotations_met')
       => since_adv + 1 >= RotationsPerUnit]_vars

\* C21: while the dial is active and the wheel has not been turned since the
\* dial was activated, rotation_count and loading_progress still have the
\* values the activation found (0 and -1: the dial starts with them and a
\* completed charge restores them), so turns made on the inactive dial count
\* for nothing.
C21_IdleTicksNotBuffered ==
  (rot_is_running /\ ~turned_active) =>
     (rotation_count = 0 /\ loading_progress = -1)

\* C22: whenever both threads are outside rotation_detected and the dial is
\* active, rotation_count is the number of full turns made since the
\* activation and loading_progress has advanced once for every three of
\* them; and no activation pushes more than one BAR_FULL.
C22_DialStepsExclusive ==
  /\ (DialAtRest /\ rot_is_running) =>
        /\ rotation_count = race_turns
        /\ loading_progress = (race_turns \div RotationsPerUnit) - 1
  /\ bar_fulls <= 1

====
